---- MODULE Spec2Model ----
(***************************************************************************)
(* NeXTRust core: the lock-striped software atomics of nextstep-atomics    *)
(* and the page allocator of nextstep-alloc.                               *)
(*                                                                         *)
(* Memory is an array of bytes; a word of width w at address a is the      *)
(* tuple of the w bytes a..a+w-1 (most significant byte first, as on the   *)
(* big-endian M68k).  Every caller executes the entry points of            *)
(* nextstep-atomics one shared-memory access at a time, so that the steps  *)
(* of different callers interleave freely.  A call returns in the step     *)
(* that clears the lock flag.                                              *)
(*                                                                         *)
(* Specifications: Spec (callers issuing any calls on words of two         *)
(* stripes), SpecLin (callers contending for one word, every call          *)
(* recorded), SpecCounter (examples/atomic-counter.rs, test 4) and SpecSeq *)
(* (one caller working alone on its word, a neighbour on the words around  *)
(* it), SpecFair (Spec under a fair scheduler), SpecHung (Spec with        *)
(* callers that may stop while holding a stripe), SpecHash (one call at    *)
(* each sampled address) and SpecAlloc (calls of the allocator, the kernel *)
(* answering as it may), SpecHeap (calls of every entry point of the       *)
(* allocator crate), SpecHeapFair (the same, every kernel call returning)  *)
(* and SpecIrq (one core: an interrupt handler that runs to completion     *)
(* over the code it interrupts).  A size or address of the 32-bit machine  *)
(* is a page number and an offset in the page.                             *)
(***************************************************************************)
EXTENDS Integers, Sequences, FiniteSets, TLC

VARIABLES
    locked,     \* SPINLOCKS[i].locked, for each stripe i
    mem,        \* the bytes of memory the callers operate on
    pc,         \* each caller's position inside the entry point it executes
    cur,        \* each caller's current call: the request and what was true when it started
    reg,        \* each caller's local (val / current / old): the word read in the critical section
    done,       \* number of calls each caller has completed
    hist,       \* the completed calls of each caller, in order (request, result)
    written,    \* the <<addr, width, value>> triples written so far by the entry points
    scen,       \* the scenario being run: it selects the calls the callers may issue
    kcalls,     \* the kernel calls made by the latest call of the allocator, with their answers
    mapped,     \* the regions the kernel has mapped for the process
    result,     \* the latest call of the allocator and what it returned
    process,    \* "running", "write" (inside the diagnostic write), or how the process ended
    called      \* the entry point of the allocator crate the program called last

allocVars == <<kcalls, mapped, result, process, called>>

vars == <<locked, mem, pc, cur, reg, done, hist, written, scen, allocVars>>

----------------------------------------------------------------------------
(* Bounds of the model *)

NumCallers == 2             \* callers of the free and contended scenarios
MaxOps == 2                 \* calls made in a run of those scenarios
CounterIncrements == 2      \* increments per caller in the counter scenario (the example makes 10)
NearOps == 1                \* calls the owner's neighbour makes
HashMax == 1100             \* the low addresses of the hash scenario are 0 .. HashMax

(* Program constants *)

CounterCallers == 3
SPINLOCK_COUNT == 64
SPINLOCK_MASK == SPINLOCK_COUNT - 1
HASH_SHIFT == 4

Callers == 1..(IF NumCallers > CounterCallers THEN NumCallers ELSE CounterCallers)

----------------------------------------------------------------------------
(* Pure functions *)

RECURSIVE BitAnd(_, _)
BitAnd(a, b) ==
    IF a = 0 \/ b = 0 THEN 0
    ELSE (a % 2) * (b % 2) + 2 * BitAnd(a \div 2, b \div 2)

\* a hash that masks the address without shifting it
low_bits_of(addr) == BitAnd(addr, SPINLOCK_MASK)

\* a hash that tells the halves of a 4-byte word apart
half_word_idx(addr) == BitAnd(addr \div 2, SPINLOCK_MASK)

addr_to_lock_idx(addr) == BitAnd(addr \div (2 ^ HASH_SHIFT), SPINLOCK_MASK)

\* *src for a pointer to a w-byte word
ReadWord(m, a, w) == [i \in 1..w |-> m[a + i - 1]]

\* a store of the next wider type: the byte after the word is cleared
WriteWordWide(m, a, w, v) ==
    [x \in DOMAIN m |-> IF x >= a /\ x < a + w THEN v[x - a + 1]
                        ELSE IF x = a + w THEN 0 ELSE m[x]]

\* a store of a one-byte type: only the first byte of the word is written
WriteWordNarrow(m, a, w, v) ==
    [x \in DOMAIN m |-> IF x = a THEN v[1] ELSE m[x]]

\* a store that carries into the byte before the word
WriteWordCarry(m, a, w, v) ==
    [x \in DOMAIN m |-> IF x >= a /\ x < a + w THEN v[x - a + 1]
                        ELSE IF x = a - 1 THEN (m[x] + 1) % 256 ELSE m[x]]

\* *dst = v for a pointer to a w-byte word
WriteWord(m, a, w, v) ==
    [x \in DOMAIN m |-> IF x >= a /\ x < a + w THEN v[x - a + 1] ELSE m[x]]

\* bytes 1..i of x + y, given the carry into byte i (byte w is the least significant)
RECURSIVE AddFrom(_, _, _, _)
AddFrom(x, y, i, carry) ==
    IF i = 0 THEN <<>>
    ELSE LET s == x[i] + y[i] + carry
         IN  Append(AddFrom(x, y, i - 1, s \div 256), s % 256)

\* an addition that drops the carries between the bytes
add_without_carry(x, y) == [i \in 1..Len(x) |-> (x[i] + y[i]) % 256]

\* old.wrapping_add(val) on u8 / u16 / u32
wrapping_add(x, y) == AddFrom(x, y, Len(x), 0)

----------------------------------------------------------------------------
(* Requests *)

Word(a, w) == [addr |-> a, width |-> w]

\* the w-byte value all of whose bytes are b
Val(w, b) == [i \in 1..w |-> b]

\* the w-byte value of the number n (n < 2^31)
ToBytes(n, w) == [i \in 1..w |-> (n \div (256 ^ (w - i))) % 256]

Unit == <<>>

Request(k, W, x, y) ==
    [kind |-> k, addr |-> W.addr, width |-> W.width, a1 |-> x, a2 |-> y, ord |-> 5]

Load(W)        == Request("load", W, Unit, Unit)
Store(W, v)    == Request("store", W, v, Unit)
Exchange(W, v) == Request("exchange", W, v, Unit)
CasVal(W, e, d)  == Request("cas", W, e, d)
CasBool(W, e, d) == Request("casb", W, e, d)
FetchAdd(W, d) == Request("faa", W, d, Unit)
Fence          == Request("fence", Word(0, 0), Unit, Unit)

NoCall == [req |-> Fence, pre |-> Unit, seen |-> Unit]

OnWord(r, W) == r.kind # "fence" /\ r.addr = W.addr /\ r.width = W.width

----------------------------------------------------------------------------
(* Scenarios: the memory the callers share and the calls each may issue *)

WA == Word(256, 4)      \* stripe 16
WB == Word(260, 2)      \* stripe 16, the bytes next to WA
WC == Word(1280, 1)     \* stripe 16, another cache line
WD == Word(272, 4)      \* stripe 17

FreeWords == {WA, WB, WC, WD}

Bytes(W) == W.addr .. (W.addr + W.width - 1)

MemAddrs == UNION {Bytes(W) : W \in FreeWords}

\* byte x of the memory the free scenario starts from
FreeByte(x) == 224 + (x % 16)

FreeMem == [x \in MemAddrs |-> FreeByte(x)]

FreeMenu ==
    LET v(W, b) == Val(W.width, b)
        init(W) == ReadWord(FreeMem, W.addr, W.width)
        one(W)  == ToBytes(1, W.width)
    IN  { Fence,
          Load(WA), Store(WA, v(WA, 17)), Exchange(WA, v(WA, 34)),
          CasVal(WA, init(WA), v(WA, 51)), FetchAdd(WA, one(WA)),
          Load(WB), FetchAdd(WB, v(WB, 255)),
          Exchange(WC, v(WC, 34)), CasBool(WC, init(WC), v(WC, 51)),
          Store(WD, v(WD, 17)) }

RECURSIVE SumTo(_, _)
SumTo(f, n) == IF n = 0 THEN 0 ELSE f[n] + SumTo(f, n - 1)

\* the calls made so far, completed or not
Started == SumTo(done, Cardinality(Callers)) + Cardinality({c \in Callers : pc[c] # "idle"})

StartedBy(c) == done[c] + (IF pc[c] # "idle" THEN 1 ELSE 0)

(* Scenario "lin": callers contend for the word WA; every call is recorded *)

LinMenu(c) ==
    { Load(WA), Store(WA, Val(4, 16 * c + 1)), Exchange(WA, Val(4, 16 * c + 2)),
      CasVal(WA, ReadWord(FreeMem, 256, 4), Val(4, 16 * c + 3)),
      FetchAdd(WA, ToBytes(1, 4)), Fence }

(* Scenario "held": calls on two stripes, WA on stripe 16 and WD on stripe 17 *)
HeldMenu ==
    { Store(WA, Val(4, 17)), Load(WD), Exchange(WD, Val(4, 34)) }

(* Scenario "counter": examples/atomic-counter.rs, test 4, with the three
   "threads" run as concurrent callers *)

COUNTER == Word(512, 4)

CounterMem == [x \in Bytes(COUNTER) |-> 0]

CounterMenu == { FetchAdd(COUNTER, ToBytes(1, 4)) }

(* Scenario "seq": the owner makes calls on one word, one after the other, and
   nobody else writes that word; its neighbour makes calls on the bytes next to
   it, on a word of its stripe and on a word of another stripe *)

Owner == CHOOSE c \in Callers : \A d \in Callers : c <= d
Near == Owner + 1

OwnerAddrs == {256, 1016}       \* stripes 16 and 63
Widths == {1, 2, 4}
OwnerWords == {Word(a, w) : a \in OwnerAddrs, w \in Widths}

Patterns == { <<0, 0, 0, 0>>, <<255, 255, 255, 255>>, <<1, 255, 0, 255>> }

Prefix(v, w) == [i \in 1..w |-> v[i]]

Samples(w) == {Prefix(v, w) : v \in Patterns}

Deltas(w) == Samples(w) \cup {ToBytes(1, w)}

NearWords == {Word(260, 2), Word(1014, 2), Word(1280, 1), Word(272, 4)}

SeqAddrs == UNION {Bytes(W) : W \in OwnerWords \cup NearWords}

SeqMem(p) ==
    [x \in SeqAddrs |->
        IF \E a \in OwnerAddrs : x \in a..(a + 3)
        THEN p[(x % 4) + 1]
        ELSE FreeByte(x)]

\* the _ordering argument: the tests pass 0, the example SEQ_CST
RELAXED == 0
SEQ_CST == 5
Orderings == {RELAXED, SEQ_CST}

WithOrdering(r, o) == [r EXCEPT !.ord = o]

\* the calls that take an _ordering argument, with each ordering
Ordered(W) ==
    {WithOrdering(r, o) :
        r \in {Load(W)} \cup {Store(W, v) : v \in Samples(W.width)}
                        \cup {Exchange(W, v) : v \in Samples(W.width)},
        o \in Orderings}

OwnerFirst ==
    UNION { Ordered(W)
            \cup {CasVal(W, e, d) : e \in Samples(W.width), d \in Samples(W.width)}
            \cup {CasBool(W, e, d) : e \in Samples(W.width), d \in Samples(W.width)}
            \cup {FetchAdd(W, d) : d \in Deltas(W.width)}
          : W \in OwnerWords }

\* after a store the owner loads the word; after a fetch-and-add it adds again
OwnerSecond(r) ==
    LET W == Word(r.addr, r.width)
    IN  CASE r.kind = "store" -> {Load(W)}
          [] r.kind = "faa" -> {FetchAdd(W, d) : d \in Deltas(W.width)}
          [] OTHER -> {}

OwnerMenu ==
    CASE Len(hist[Owner]) = 0 -> OwnerFirst
      [] Len(hist[Owner]) = 1 -> OwnerSecond(hist[Owner][1].req)
      [] OTHER -> {}

NearMenu ==
    { FetchAdd(Word(260, 2), Val(2, 255)), Store(Word(1014, 2), Val(2, 51)),
      Exchange(Word(1280, 1), Val(1, 34)), Store(Word(272, 4), Val(4, 17)) }

(* Scenario "hash": one call, of any kind and width, on a word at any of the
   sampled addresses *)

HashAddrs == (0..HashMax) \cup {2147482624, 2147483632, 2147483640}

HashMem(a) == [x \in a..(a + 3) |-> FreeByte(x)]

\* the address the scenario's memory starts at
HashBase == CHOOSE a \in DOMAIN mem : \A b \in DOMAIN mem : a <= b

HashMenu ==
    LET a == HashBase
    IN  { Load(Word(a, 1)), Store(Word(a, 2), Val(2, 17)), Exchange(Word(a, 4), Val(4, 34)),
          FetchAdd(Word(a, 1), Val(1, 255)),
          CasBool(Word(a, 2), ReadWord(HashMem(a), a, 2), Val(2, 51)) }

\* one core: the code that is interrupted, and the context that interrupts it
Interrupted == 1
Interrupting == 2

MayCall(c) ==
    CASE scen = "seq" -> c = Owner \/ (c = Near /\ StartedBy(Near) < NearOps)
      [] scen = "free" -> c <= NumCallers /\ Started < MaxOps
      [] scen = "lin" -> c <= NumCallers /\ Started < MaxOps
      [] scen = "held" -> c <= NumCallers /\ Started < MaxOps
      [] scen = "counter" -> c <= CounterCallers /\ StartedBy(c) < CounterIncrements
      [] scen = "hash" -> c = Owner /\ done[c] = 0
      [] scen = "irq" -> /\ c \in {Interrupted, Interrupting}
                         /\ done[c] = 0
                         /\ c = Interrupting => pc[Interrupted] # "idle"
      [] OTHER -> FALSE

Menu(c) ==
    CASE scen = "free" -> FreeMenu
      [] scen = "lin" -> LinMenu(c)
      [] scen = "counter" -> CounterMenu
      [] scen = "seq" -> IF c = Owner THEN OwnerMenu ELSE NearMenu
      [] scen = "hash" -> HashMenu
      [] scen = "irq" -> LinMenu(c)
      [] scen = "held" -> HeldMenu
      [] OTHER -> {}

\* what the scenario records of every call
Recording == scen # "free"
RecordingOrder == scen \in {"lin", "irq"}
RecordingValues == scen \in {"lin", "seq", "irq"}

----------------------------------------------------------------------------
(* The entry points, one shared-memory access per step *)

Req(c) == cur[c].req
Idx(c) == addr_to_lock_idx(Req(c).addr)
Target(c) == ReadWord(mem, Req(c).addr, Req(c).width)

\* a compare-and-swap that returns the expected value, not the one it read
RetValExpected(r, v) ==
    CASE r.kind \in {"load", "exchange", "faa"} -> v
      [] r.kind = "cas" -> r.a1
      [] r.kind = "casb" -> IF v = r.a1 THEN 1 ELSE 0
      [] OTHER -> Unit

\* an exchange that returns the value it stored
RetValStored(r, v) ==
    CASE r.kind \in {"load", "cas", "faa"} -> v
      [] r.kind = "exchange" -> r.a1
      [] r.kind = "casb" -> IF v = r.a1 THEN 1 ELSE 0
      [] OTHER -> Unit

\* what the entry point returns, from the local it read in the critical section
RetVal(r, v) ==
    CASE r.kind \in {"load", "exchange", "cas", "faa"} -> v
      [] r.kind = "casb" -> IF v = r.a1 THEN 1 ELSE 0
      [] OTHER -> Unit

\* the stripes whose flag is set
Held == {k \in DOMAIN locked : locked[k] # 0}

\* the call returns v; a recorded fence notes the stripes held as it returns
Completed(c, r, v) ==
    /\ done' = [done EXCEPT ![c] = @ + 1]
    /\ hist' = IF Recording
               THEN [hist EXCEPT ![c] = Append(@,
                        [req |-> r, pre |-> IF r.kind = "fence" THEN Held ELSE cur[c].pre,
                         seen |-> cur[c].seen, ret |-> v,
                         post |-> IF RecordingValues /\ r.kind # "fence"
                                  THEN ReadWord(mem, r.addr, r.width) ELSE Unit])]
               ELSE hist

\* a __sync_synchronize that takes the stripe of address 0 like the other entry points
CallFenceLocks(c, r) ==
    /\ pc[c] = "idle"
    /\ MayCall(c)
    /\ r \in Menu(c)
    /\ pc' = [pc EXCEPT ![c] = "test"]
    /\ cur' = [cur EXCEPT ![c] = [req |-> r, pre |-> Unit, seen |-> Unit]]
    /\ UNCHANGED <<done, hist, locked, mem, reg, written, scen, allocVars>>

\* the call is made: the stripe is chosen; __sync_synchronize is a fence and returns
Call(c, r) ==
    /\ pc[c] = "idle"
    /\ MayCall(c)
    /\ r \in Menu(c)
    /\ IF r.kind = "fence"
       THEN /\ Completed(c, r, Unit)
            /\ UNCHANGED <<pc, cur>>
       ELSE /\ pc' = [pc EXCEPT ![c] = "test"]
            /\ cur' = [cur EXCEPT ![c] =
                          [req |-> r,
                           pre |-> IF RecordingValues THEN ReadWord(mem, r.addr, r.width) ELSE Unit,
                           seen |-> IF RecordingOrder THEN done ELSE Unit]]
            /\ UNCHANGED <<done, hist>>
    /\ UNCHANGED <<locked, mem, reg, written, scen, allocVars>>

\* where the loop goes on the flag it read. The flag is a plain byte read through
\* a unique reference while other callers write it: the loop may read it again
\* on every turn, or keep the first value it read and turn for ever
AfterTest(flag) == IF flag # 0 THEN {"test", "spin"} ELSE {"set"}

\* an entry point that takes no lock when it is given the relaxed ordering
SpinTestOrdered(c) ==
    /\ pc[c] = "test"
    /\ \E p \in (IF Req(c).ord = RELAXED THEN {"cs1"} ELSE AfterTest(locked[Idx(c)])) :
            pc' = [pc EXCEPT ![c] = p]
    /\ UNCHANGED <<locked, mem, cur, reg, done, hist, written, scen, allocVars>>

\* an entry point that reads the word while it waits for the flag
SpinTestReads(c) ==
    /\ pc[c] = "test"
    /\ \E p \in AfterTest(locked[Idx(c)]) : pc' = [pc EXCEPT ![c] = p]
    /\ reg' = [reg EXCEPT ![c] = Target(c)]
    /\ UNCHANGED <<locked, mem, cur, done, hist, written, scen, allocVars>>

\* an entry point that waits until no stripe at all is held
SpinTestAnyFlag(c) ==
    /\ pc[c] = "test"
    /\ \E p \in AfterTest(IF Held = {} THEN 0 ELSE 1) : pc' = [pc EXCEPT ![c] = p]
    /\ UNCHANGED <<locked, mem, cur, reg, done, hist, written, scen, allocVars>>

\* acquire_spinlock: while lock.locked != 0 { spin_loop() }
SpinTest(c) ==
    /\ pc[c] = "test"
    /\ \E p \in AfterTest(locked[Idx(c)]) : pc' = [pc EXCEPT ![c] = p]
    /\ UNCHANGED <<locked, mem, cur, reg, done, hist, written, scen, allocVars>>

\* acquire_spinlock: lock.locked = 1
SpinSet(c) ==
    /\ pc[c] = "set"
    /\ locked' = [locked EXCEPT ![Idx(c)] = 1]
    /\ pc' = [pc EXCEPT ![c] = "cs1"]
    /\ UNCHANGED <<mem, cur, reg, done, hist, written, scen, allocVars>>

DoWrite(c, v) ==
    /\ mem' = WriteWord(mem, Req(c).addr, Req(c).width, v)
    /\ written' = written \cup {<<Req(c).addr, Req(c).width, v>>}

\* a compare-and-swap that writes whatever it read
MatchesAlways(current, oldval) == TRUE

\* if current == oldval
Matches(current, oldval) == current = oldval

\* a fetch-and-add that stores its operand
NewValueNoAdd(r, old) ==
    CASE r.kind \in {"exchange", "faa"} -> r.a1
      [] OTHER -> r.a2

\* the value the second access writes, from the value the first one read
NewValue(r, old) ==
    CASE r.kind = "exchange" -> r.a1
      [] r.kind = "faa" -> wrapping_add(old, r.a1)
      [] OTHER -> r.a2

\* the first access of the critical section: the read, or the write of a store
Access1(c) ==
    /\ pc[c] = "cs1"
    /\ IF Req(c).kind = "store"
       THEN /\ DoWrite(c, Req(c).a1)
            /\ pc' = [pc EXCEPT ![c] = "rel"]
            /\ UNCHANGED reg
       ELSE /\ reg' = [reg EXCEPT ![c] = Target(c)]
            /\ pc' = [pc EXCEPT ![c] =
                  CASE Req(c).kind = "load" -> "rel"
                    [] Req(c).kind \in {"cas", "casb"} ->
                          IF Matches(Target(c), Req(c).a1) THEN "cs2" ELSE "rel"
                    [] OTHER -> "cs2"]
            /\ UNCHANGED <<mem, written>>
    /\ UNCHANGED <<locked, cur, done, hist, scen, allocVars>>

\* a second access that takes the lock of stripe 0 as well
Access2Locks(c) ==
    /\ pc[c] = "cs2"
    /\ DoWrite(c, NewValue(Req(c), reg[c]))
    /\ pc' = [pc EXCEPT ![c] = "rel"]
    /\ locked' = [locked EXCEPT ![0] = 1]
    /\ UNCHANGED <<cur, reg, done, hist, scen, allocVars>>

\* the write of an exchange, of a compare-and-swap that matched, of a fetch-and-add
Access2(c) ==
    /\ pc[c] = "cs2"
    /\ DoWrite(c, NewValue(Req(c), reg[c]))
    /\ pc' = [pc EXCEPT ![c] = "rel"]
    /\ UNCHANGED <<locked, cur, reg, done, hist, scen, allocVars>>

\* a release that a compare-and-swap skips when it has not matched
ReleaseOnMatch(c) ==
    /\ pc[c] = "rel"
    /\ locked' = IF Req(c).kind \in {"cas", "casb"} /\ reg[c] # Req(c).a1
                 THEN locked
                 ELSE [locked EXCEPT ![Idx(c)] = 0]
    /\ Completed(c, Req(c), RetVal(Req(c), reg[c]))
    /\ pc' = [pc EXCEPT ![c] = "idle"]
    /\ cur' = [cur EXCEPT ![c] = NoCall]
    /\ reg' = [reg EXCEPT ![c] = Unit]
    /\ UNCHANGED <<mem, written, scen, allocVars>>

\* a release that clears the whole table
ReleaseAll(c) ==
    /\ pc[c] = "rel"
    /\ locked' = [k \in DOMAIN locked |-> 0]
    /\ Completed(c, Req(c), RetVal(Req(c), reg[c]))
    /\ pc' = [pc EXCEPT ![c] = "idle"]
    /\ cur' = [cur EXCEPT ![c] = NoCall]
    /\ reg' = [reg EXCEPT ![c] = Unit]
    /\ UNCHANGED <<mem, written, scen, allocVars>>

\* release_spinlock: lock.locked = 0; then the entry point returns its local
Release(c) ==
    /\ pc[c] = "rel"
    /\ locked' = [locked EXCEPT ![Idx(c)] = 0]
    /\ Completed(c, Req(c), RetVal(Req(c), reg[c]))
    /\ pc' = [pc EXCEPT ![c] = "idle"]
    /\ cur' = [cur EXCEPT ![c] = NoCall]
    /\ reg' = [reg EXCEPT ![c] = Unit]
    /\ UNCHANGED <<mem, written, scen, allocVars>>

\* a caller makes one of the calls its scenario allows
Invoke(c) == \E r \in Menu(c) : Call(c, r)

Next ==
    \E c \in Callers :
        \/ Invoke(c)
        \/ SpinTest(c)
        \/ SpinSet(c)
        \/ Access1(c)
        \/ Access2(c)
        \/ Release(c)

\* the allocator has not been called
AllocIdle ==
    /\ kcalls = <<>>
    /\ mapped = {}
    /\ result = <<>>
    /\ process = "running"
    /\ called = "none"

InitCallers ==
    /\ AllocIdle
    /\ locked = [i \in 0..(SPINLOCK_COUNT - 1) |-> 0]
    /\ pc = [c \in Callers |-> "idle"]
    /\ cur = [c \in Callers |-> NoCall]
    /\ reg = [c \in Callers |-> Unit]
    /\ done = [c \in Callers |-> 0]
    /\ hist = [c \in Callers |-> <<>>]
    /\ written = {}

\* callers issuing any calls on the words of FreeWords, in any interleaving
Init ==
    /\ InitCallers
    /\ scen = "free"
    /\ mem = FreeMem

Spec == Init /\ [][Next]_vars

\* callers contending for one word, every call recorded
InitLin ==
    /\ InitCallers
    /\ scen = "lin"
    /\ mem = FreeMem

SpecLin == InitLin /\ [][Next]_vars

\* three callers, each incrementing COUNTER
InitCounter ==
    /\ InitCallers
    /\ scen = "counter"
    /\ mem = CounterMem

SpecCounter == InitCounter /\ [][Next]_vars

\* one caller working on its own word, from every sampled initial value
InitSeq ==
    /\ InitCallers
    /\ scen = "seq"
    /\ \E p \in Patterns : mem = SeqMem(p)

SpecSeq == InitSeq /\ [][Next]_vars

\* one call on a word at a sampled address
InitHash ==
    /\ InitCallers
    /\ scen = "hash"
    /\ \E a \in HashAddrs : mem = HashMem(a)

SpecHash == InitHash /\ [][Next]_vars

\* on one core the interrupting context runs to completion: the interrupted
\* code takes no step while a call of the interrupting context is in progress
Runs(c) == c = Interrupting \/ pc[Interrupting] = "idle"

NextIrq ==
    \E c \in {Interrupted, Interrupting} :
        \/ Runs(c) /\ Invoke(c)
        \/ Runs(c) /\ SpinTest(c)
        \/ Runs(c) /\ SpinSet(c)
        \/ Runs(c) /\ Access1(c)
        \/ Runs(c) /\ Access2(c)
        \/ Runs(c) /\ Release(c)

\* one call on WA is interrupted, at any step, by one call on WA
InitIrq ==
    /\ InitCallers
    /\ scen = "irq"
    /\ mem = FreeMem

SpecIrq == InitIrq /\ [][NextIrq]_vars

----------------------------------------------------------------------------
(* One-at-a-time semantics of a call on a word whose value is v *)

SeqAfter(r, v) ==
    CASE r.kind \in {"store", "exchange"} -> r.a1
      [] r.kind \in {"cas", "casb"} -> IF v = r.a1 THEN r.a2 ELSE v
      [] r.kind = "faa" -> wrapping_add(v, r.a1)
      [] OTHER -> v

SeqRet(r, v) ==
    CASE r.kind \in {"load", "exchange", "cas", "faa"} -> v
      [] r.kind = "casb" -> IF v = r.a1 THEN 1 ELSE 0
      [] OTHER -> Unit

Quiescent == \A c \in Callers : pc[c] = "idle"

InCritical(c) == pc[c] \in {"cs1", "cs2", "rel"}

\* the recorded calls on W can be put in one order, from k on, that starts from
\* value v, keeps every call after the calls that had returned when it was made,
\* gives every call the result it returned and ends with the value now in memory
RECURSIVE LinFrom(_, _, _)
LinFrom(W, k, v) ==
    IF \A c \in Callers : k[c] = Len(hist[c])
    THEN v = ReadWord(mem, W.addr, W.width)
    ELSE \E c \in Callers :
            /\ k[c] < Len(hist[c])
            /\ LET h == hist[c][k[c] + 1]
                   k2 == [k EXCEPT ![c] = @ + 1]
               IN  IF OnWord(h.req, W)
                   THEN /\ \A d \in Callers : h.seen[d] <= k[d]
                        /\ h.ret = SeqRet(h.req, v)
                        /\ LinFrom(W, k2, SeqAfter(h.req, v))
                   ELSE LinFrom(W, k2, v)

----------------------------------------------------------------------------
(* C1: mutual exclusion per stripe. In every interleaving of the callers' steps,
   at most one caller is between its completed acquire_spinlock and its
   release_spinlock of a given stripe. *)
C1_MutualExclusion ==
    \A c, d \in Callers :
        (c # d /\ InCritical(c) /\ InCritical(d)) => Idx(c) # Idx(d)

(* C2: per-address linearizability. Whenever no call is in progress, the calls
   completed on the word are equivalent to a one-at-a-time execution that
   respects the order in which calls returned and were made: same results,
   same final value. *)
C2_Linearizable ==
    Quiescent => LinFrom(WA, [c \in Callers |-> 0], ReadWord(FreeMem, WA.addr, WA.width))

\* the results returned by all completed calls, as a sequence
RECURSIVE AllRets(_)
AllRets(n) ==
    IF n = 0 THEN <<>>
    ELSE AllRets(n - 1) \o [i \in 1..Len(hist[n]) |-> hist[n][i].ret]

CounterTotal == CounterCallers * CounterIncrements

CounterFinished == scen = "counter" /\ Quiescent /\ \A c \in 1..CounterCallers : done[c] = CounterIncrements

(* C3: the counter scenario. Starting from COUNTER = 0, when each of the three
   callers has made its fetchAndAdd(COUNTER, 1) calls, COUNTER holds the number
   of calls made and the previous values returned are 0 .. total-1, each once. *)
C3_CounterScenario ==
    CounterFinished =>
        /\ ReadWord(mem, COUNTER.addr, 4) = ToBytes(CounterTotal, 4)
        /\ LET rets == AllRets(CounterCallers)
           IN  /\ Len(rets) = CounterTotal
               /\ \A n \in 0..(CounterTotal - 1) :
                     Cardinality({i \in 1..Len(rets) : rets[i] = ToBytes(n, 4)}) = 1

(* C4: no torn or invented values. The value a load, exchange, compareAndSwap
   or fetchAndAdd reads from a word is the word's initial value or a value that
   one store, exchange, compareAndSwap or fetchAndAdd of the same width wrote
   to that word, also while calls on other words of the stripe are going on. *)
C4_NoTornValues ==
    \A c \in Callers :
        reg[c] # Unit =>
            \/ reg[c] = ReadWord(FreeMem, Req(c).addr, Req(c).width)
            \/ <<Req(c).addr, Req(c).width, reg[c]>> \in written

\* a caller has read a value that a call of another caller wrote, while that
\* other call is still inside its critical section
C4_Witness ==
    \E c, d \in Callers :
        /\ c # d
        /\ reg[c] # Unit
        /\ reg[c] # ReadWord(FreeMem, Req(c).addr, Req(c).width)
        /\ InCritical(d)
        /\ Req(d).addr = Req(c).addr

\* every caller made exactly one call: compareAndSwap(WA, initial value, its own value)
CasRace ==
    /\ scen = "lin"
    /\ Quiescent
    /\ \A c \in 1..NumCallers :
          /\ Len(hist[c]) = 1
          /\ hist[c][1].req = CasVal(WA, ReadWord(FreeMem, 256, 4), Val(4, 16 * c + 3))

(* C6: compareAndSwap under contention. When every caller issues
   compareAndSwap(a, c, d_i) on a word holding c, exactly one call returns c
   and installs its d_i; the others return the winner's value and change
   nothing. *)
C6_CasContention ==
    CasRace =>
        \E w \in 1..NumCallers :
            /\ hist[w][1].ret = ReadWord(FreeMem, 256, 4)
            /\ ReadWord(mem, 256, 4) = hist[w][1].req.a2
            /\ \A c \in 1..NumCallers : c # w => hist[c][1].ret = hist[w][1].req.a2

----------------------------------------------------------------------------
(* Arithmetic on word values, by 16-bit halves *)

Num16(v, i) == IF i >= 2 THEN v[i - 1] * 256 + v[i] ELSE v[i]

\* (x + y + z) mod 2^(8w), for values of w bytes
ModSum(x, y, z, w) ==
    IF w = 4
    THEN LET lo == Num16(x, 4) + Num16(y, 4) + Num16(z, 4)
             hi == Num16(x, 2) + Num16(y, 2) + Num16(z, 2) + (lo \div 65536)
         IN  ToBytes(hi % 65536, 2) \o ToBytes(lo % 65536, 2)
    ELSE ToBytes((Num16(x, w) + Num16(y, w) + Num16(z, w)) % (2 ^ (8 * w)), w)

OwnerCalls == IF scen = "seq" THEN hist[Owner] ELSE <<>>

(* C5: compareAndSwap(a, expected, desired), for every width and current value
   c: the word becomes desired if c = expected and stays c otherwise, and the
   call returns c in both cases. *)
C5_CompareAndSwap ==
    \A i \in 1..Len(OwnerCalls) :
        LET h == OwnerCalls[i]
        IN  h.req.kind = "cas" =>
               /\ h.ret = h.pre
               /\ h.post = IF h.pre = h.req.a1 THEN h.req.a2 ELSE h.pre

\* a 4-byte compareAndSwap whose expected value differed from the word has returned
C5_Witness ==
    \E i \in 1..Len(OwnerCalls) :
        LET h == OwnerCalls[i]
        IN  h.req.kind = "cas" /\ h.req.width = 4 /\ h.pre # h.req.a1 /\ h.req.a2 # h.pre

(* C7: the boolean compareAndSwap returns true exactly when the value before
   the attempt equals expected, and the word is changed to desired exactly when
   it returns true; memory ends as with the value-returning form. *)
C7_CompareAndSwapBool ==
    \A i \in 1..Len(OwnerCalls) :
        LET h == OwnerCalls[i]
        IN  h.req.kind = "casb" =>
               /\ (h.ret = 1) <=> (h.pre = h.req.a1)
               /\ h.ret \in {0, 1}
               /\ h.post = IF h.ret = 1 THEN h.req.a2 ELSE h.pre
               /\ h.post = SeqAfter(CasVal(Word(h.req.addr, h.req.width), h.req.a1, h.req.a2), h.pre)

\* a boolean compareAndSwap has returned true and changed the word
C7_Witness ==
    \E i \in 1..Len(OwnerCalls) :
        LET h == OwnerCalls[i]
        IN  h.req.kind = "casb" /\ h.ret = 1 /\ h.post # h.pre

(* C8: fetchAndAdd(a, delta) of width w returns the previous value old and
   leaves the word equal to (old + delta) mod 2^(8w). *)
C8_FetchAddWraps ==
    \A i \in 1..Len(OwnerCalls) :
        LET h == OwnerCalls[i]
        IN  h.req.kind = "faa" =>
               /\ h.ret = h.pre
               /\ h.post = ModSum(h.pre, h.req.a1, Val(h.req.width, 0), h.req.width)

\* a fetchAndAdd whose sum exceeded the width has returned, for each width
C8_Witness ==
    \E i \in 1..Len(OwnerCalls) :
        LET h == OwnerCalls[i]
        IN  /\ h.req.kind = "faa"
            /\ h.req.width = 4
            /\ h.pre = Val(4, 255)
            /\ h.req.a1 = ToBytes(1, 4)
            /\ h.post = Val(4, 0)

(* C9: fetchAndAdd(a, x) followed by fetchAndAdd(a, y), with no other writer
   to a, leaves a equal to (initial + x + y) wrapped to the width, whatever the
   calls on other words that are interleaved with the two. *)
C9_FetchAddComposes ==
    \A i \in 1..(Len(OwnerCalls) - 1) :
        LET g == OwnerCalls[i]
            h == OwnerCalls[i + 1]
        IN  (g.req.kind = "faa" /\ h.req.kind = "faa" /\ OnWord(h.req, Word(g.req.addr, g.req.width)))
            => h.post = ModSum(g.pre, g.req.a1, h.req.a1, g.req.width)

\* two fetchAndAdd calls on a word have returned, a call on a word of another
\* stripe having completed after the first returned and before the second did
C9_Witness ==
    /\ Len(OwnerCalls) = 2
    /\ OwnerCalls[2].req.kind = "faa"
    /\ Len(hist[Near]) >= 1
    /\ addr_to_lock_idx(hist[Near][1].req.addr) # addr_to_lock_idx(OwnerCalls[2].req.addr)
    /\ hist[Near][1].pre # hist[Near][1].post

(* C10: store(a, v) followed by load(a) of the same width, with no writer in
   between, returns v, for every address, width and value. *)
C10_StoreLoad ==
    \A i \in 1..(Len(OwnerCalls) - 1) :
        LET g == OwnerCalls[i]
            h == OwnerCalls[i + 1]
        IN  (g.req.kind = "store" /\ h.req.kind = "load" /\ OnWord(h.req, Word(g.req.addr, g.req.width)))
            => h.ret = g.req.a1

\* a store that changed a 2-byte word on stripe 63 was followed by a load
C10_Witness ==
    /\ Len(OwnerCalls) = 2
    /\ OwnerCalls[1].req.kind = "store"
    /\ OwnerCalls[1].req.width = 2
    /\ addr_to_lock_idx(OwnerCalls[1].req.addr) = SPINLOCK_MASK
    /\ OwnerCalls[1].pre # OwnerCalls[1].req.a1
    /\ OwnerCalls[2].req.kind = "load"

----------------------------------------------------------------------------
(* Words that share a stripe *)

\* the neighbour's call is on a word of the stripe of W that shares no byte with W
Colliding(r, W) ==
    /\ addr_to_lock_idx(r.addr) = addr_to_lock_idx(W.addr)
    /\ Bytes(Word(r.addr, r.width)) \cap Bytes(W) = {}

\* the step is one of caller c's
StepOf(c) == pc'[c] # pc[c] \/ done'[c] # done[c]

\* a step of the neighbour's call on a colliding word leaves the owner's word as it was
CollidingStepKeeps ==
    (scen = "seq" /\ mem' # mem /\ StepOf(Near)) =>
        \A W \in OwnerWords :
            Colliding(Req(Near), W)
                => ReadWord(mem', W.addr, W.width) = ReadWord(mem, W.addr, W.width)

\* the owner's load after its store returned the stored value
StoredThenLoaded ==
    \A i \in 1..(Len(OwnerCalls) - 1) :
        (OwnerCalls[i].req.kind = "store" /\ OwnerCalls[i + 1].req.kind = "load")
            => OwnerCalls[i + 1].ret = OwnerCalls[i].req.a1

(* C11: stripe collision safety. For distinct, non-overlapping words a and b of
   one stripe, no step of a call on b changes the value of a, and store(a, v)
   followed by load(a) returns v also when calls on b are in progress. *)
C11_StripeCollision == [][CollidingStepKeeps]_vars /\ []StoredThenLoaded

\* the owner's load after its store has read the word while the neighbour is
\* inside its critical section, having written a colliding word
C11_Witness ==
    /\ Len(OwnerCalls) = 1
    /\ OwnerCalls[1].req.kind = "store"
    /\ pc[Owner] = "rel"
    /\ pc[Near] = "rel"
    /\ Colliding(Req(Near), Word(Req(Owner).addr, Req(Owner).width))
    /\ ReadWord(mem, Req(Near).addr, Req(Near).width) # ReadWord(SeqMem(<<0, 0, 0, 0>>), Req(Near).addr, Req(Near).width)

(* C12: exchange(a, v) returns the value the word held immediately before the
   call and leaves the word equal to v, for every width and every pair of old
   value and v. *)
C12_Exchange ==
    \A i \in 1..Len(OwnerCalls) :
        LET h == OwnerCalls[i]
        IN  h.req.kind = "exchange" => (h.ret = h.pre /\ h.post = h.req.a1)

\* a 2-byte exchange has returned, on a word that held another value
C12_Witness ==
    /\ Len(OwnerCalls) = 1
    /\ OwnerCalls[1].req.kind = "exchange"
    /\ OwnerCalls[1].req.width = 2
    /\ OwnerCalls[1].pre = <<1, 255>>
    /\ OwnerCalls[1].req.a1 = <<255, 255>>

----------------------------------------------------------------------------
(* Progress of the calls *)

\* a step of a call caller c has started
Run(c) == SpinTest(c) \/ SpinSet(c) \/ Access1(c) \/ Access2(c) \/ Release(c)

\* every caller that is inside a call keeps being scheduled
SpecFair == Init /\ [][Next]_vars /\ \A c \in Callers : WF_vars(Run(c))

(* C13: every atomic operation completes. With finitely many callers, each
   scheduled fairly, every started load, store, exchange, compareAndSwap or
   fetchAndAdd eventually returns. *)
C13_EveryCallReturns == \A c \in Callers : (pc[c] # "idle") ~> (pc[c] = "idle")

----------------------------------------------------------------------------
(* The ordering argument *)

\* a call without its _ordering argument
Unordered(r) == [kind |-> r.kind, addr |-> r.addr, width |-> r.width, a1 |-> r.a1]

\* where a load, store or exchange goes from position p, the flag of its stripe being flag
PathAfter(kind, p, flag) ==
    CASE p = "test" -> IF flag # 0 THEN {"test", "spin"} ELSE {"set"}
      [] p = "set" -> {"cs1"}
      [] p = "cs1" -> IF kind = "exchange" THEN {"cs2"} ELSE {"rel"}
      [] p = "cs2" -> {"rel"}
      [] p = "rel" -> {"idle"}
      [] OTHER -> {}

\* every step of a load, store or exchange is the step its call without the
\* ordering determines: same stripe, same position, same lock table, same memory
OrderingBlindStep ==
    \A c \in Callers :
        (StepOf(c) /\ pc[c] # "idle" /\ Req(c).kind \in {"load", "store", "exchange"}) =>
            LET u == Unordered(Req(c))
                k == addr_to_lock_idx(u.addr)
            IN  /\ pc'[c] \in PathAfter(u.kind, pc[c], locked[k])
                /\ locked' = CASE pc[c] = "set" -> [locked EXCEPT ![k] = 1]
                               [] pc[c] = "rel" -> [locked EXCEPT ![k] = 0]
                               [] OTHER -> locked
                /\ mem' = IF (pc[c] = "cs1" /\ u.kind = "store") \/ pc[c] = "cs2"
                          THEN WriteWord(mem, u.addr, u.width, u.a1)
                          ELSE mem

\* what a load, store or exchange returned and left in the word is what its call
\* without the ordering gives on the value the word held
OrderingBlindResult ==
    \A i \in 1..Len(OwnerCalls) :
        LET h == OwnerCalls[i]
        IN  h.req.kind \in {"load", "store", "exchange"} =>
               /\ h.ret = SeqRet(Unordered(h.req), h.pre)
               /\ h.post = SeqAfter(Unordered(h.req), h.pre)

(* C14: the memory-ordering argument is not differentiated. For load, store
   and exchange, two runs from the same state that differ only in the ordering
   argument take the same stripe, perform the same steps, return the same value
   and reach the same memory and lock-table state: every step and every result
   is a function of the call without its ordering. *)
C14_OrderingIgnored == [][OrderingBlindStep]_vars /\ []OrderingBlindResult

\* an exchange given the relaxed ordering has returned, having changed the word
C14_Witness ==
    /\ Len(OwnerCalls) = 1
    /\ OwnerCalls[1].req.kind = "exchange"
    /\ OwnerCalls[1].req.ord = RELAXED
    /\ OwnerCalls[1].req.width = 4
    /\ OwnerCalls[1].pre # OwnerCalls[1].post

----------------------------------------------------------------------------
(* The fence *)

\* a step in which caller c calls __sync_synchronize
FenceStep(c) == pc[c] = "idle" /\ StepOf(c) /\ cur'[c].req.kind = "fence"

\* the fence returns in the step that calls it and writes no flag and no word
FenceFrame ==
    \A c \in Callers :
        FenceStep(c) =>
            /\ locked' = locked
            /\ mem' = mem
            /\ pc' = pc
            /\ done'[c] = done[c] + 1

\* a caller that may call the fence can do so whatever flags are set
FenceReady ==
    \A c \in Callers :
        (pc[c] = "idle" /\ MayCall(c) /\ Fence \in Menu(c)) => ENABLED Call(c, Fence)

(* C15: fence acquires no stripe. A fence call leaves every lock flag and every
   memory word unchanged, and returns also when the stripes are held by other
   callers. *)
C15_FenceTakesNoLock == [][FenceFrame]_vars /\ []FenceReady

\* a fence has returned while another caller held the stripe of the contended word
C15_Witness ==
    \E c \in Callers : \E i \in 1..Len(hist[c]) :
        /\ hist[c][i].req.kind = "fence"
        /\ addr_to_lock_idx(WA.addr) \in hist[c][i].pre

----------------------------------------------------------------------------
(* A holder that never releases *)

\* the caller stops between acquire_spinlock and release_spinlock and never resumes
Hang(c) ==
    /\ InCritical(c)
    /\ pc' = [pc EXCEPT ![c] = "halt"]
    /\ UNCHANGED <<locked, mem, cur, reg, done, hist, written, scen, allocVars>>

NextHung ==
    \E c \in Callers :
        \/ Invoke(c)
        \/ SpinTest(c)
        \/ SpinSet(c)
        \/ Access1(c)
        \/ Access2(c)
        \/ Release(c)
        \/ Hang(c)

\* the free scenario, with callers that may stop inside their critical section
SpecHung == Init /\ [][NextHung]_vars

\* no call on a stripe returns once another caller has stopped holding that stripe
HungStalls ==
    \A h, c \in Callers :
        (h # c /\ pc[h] = "halt" /\ pc[c] \notin {"idle", "halt"} /\ Idx(c) = Idx(h))
            => done'[c] = done[c]

(* C16: a hung lock holder stalls its stripe. If a caller that holds stripe k
   never executes its release, no other operation on an address hashing to k
   ever returns. *)
C16_HungHolderStalls == [][HungStalls]_vars

----------------------------------------------------------------------------
(* The lock table *)

\* the lock table changes only in a step of a call, and only in the flag of the
\* stripe of the call's address: the store of acquire_spinlock sets it, and the
\* release_spinlock of a caller that went through acquire_spinlock in the same
\* call clears it; every other flag is as before
FlagFrame ==
    locked' # locked =>
        \E c \in Callers :
            /\ StepOf(c)
            /\ pc[c] \in {"set", "rel"}
            /\ locked' = [locked EXCEPT ![addr_to_lock_idx(Req(c).addr)] =
                              IF pc[c] = "set" THEN 1 ELSE 0]

(* C17: lock-table frame. An operation on address a writes only the flag of
   stripe hash(a); every other stripe's flag is left unchanged by every step of
   that operation, and the flag of stripe hash(a) is cleared only by a caller
   that set it. *)
C17_LockTableFrame == [][FlagFrame]_vars

\* two callers are inside calls on different stripes, both flags set, one of them
\* about to release
C17_Witness ==
    \E c, d \in Callers :
        /\ pc[c] = "rel"
        /\ InCritical(d)
        /\ Idx(c) # Idx(d)
        /\ locked[Idx(c)] = 1
        /\ locked[Idx(d)] = 1

----------------------------------------------------------------------------
(* The stripe of an address *)

\* an address whose sixteenth differs from that of a by 64
Alias(a) == IF a >= SPINLOCK_COUNT * 16 THEN a - SPINLOCK_COUNT * 16 ELSE a + SPINLOCK_COUNT * 16

(* C18: the stripe index is a function of the address alone. For every address
   it equals floor(address / 16) mod 64 and lies in 0..63, whatever the width
   and the kind of the call; it is the flag the call sets; and addresses whose
   floor(address / 16) differ by a multiple of 64 have the same index. *)
C18_StripeIndex ==
    \A c \in Callers :
        (scen = "hash" /\ pc[c] # "idle") =>
            LET a == Req(c).addr
                k == (a \div 16) % 64
            IN  /\ Idx(c) = k
                /\ k \in 0..63
                /\ InCritical(c) => Held = {k}
                /\ addr_to_lock_idx(Alias(a)) = k
                /\ addr_to_lock_idx(Alias(Alias(a) + 15 - (a % 16))) = k

\* a 4-byte exchange on address 1043, past the first 64 lines, holds stripe 1
C18_Witness ==
    /\ scen = "hash"
    /\ pc[Owner] = "rel"
    /\ Req(Owner) = Exchange(Word(1043, 4), Val(4, 34))
    /\ locked[1] = 1

----------------------------------------------------------------------------
(* nextstep-alloc: MachAllocator over the kernel's VM calls, on a 32-bit usize *)

PAGE_SIZE == 4096

\* the number of pages in the 32-bit address space
PageCount == ((2 ^ 16) \div PAGE_SIZE) * (2 ^ 16)

\* the usize p * PAGE_SIZE + o
USize(p, o) == [page |-> p, off |-> o]

NULL == USize(0, 0)

\* x + y on usize, and whether the sum left the 32 bits
usize_add(x, y) ==
    LET o == x.off + y.off
        p == x.page + y.page + (o \div PAGE_SIZE)
    IN  [val |-> USize(p % PageCount, o % PAGE_SIZE), overflow |-> p >= PageCount]

\* x - y on usize, and whether the difference left the 32 bits
usize_sub(x, y) ==
    LET o == x.off - y.off
        p == x.page - y.page - (IF o < 0 THEN 1 ELSE 0)
    IN  [val |-> USize(p % PageCount, o % PAGE_SIZE), overflow |-> p < 0]

\* !x and x & y on usize
usize_not(x) == USize(PageCount - 1 - x.page, PAGE_SIZE - 1 - x.off)

usize_and(x, y) == USize(BitAnd(x.page, y.page), BitAnd(x.off, y.off))

\* !(PAGE_SIZE - 1)
PageMask == usize_not(usize_sub(USize(1, 0), USize(0, 1)).val)

\* a rounding that drops the part of a page
round_down_to_page(size) == [val |-> usize_and(size, PageMask), overflow |-> FALSE]

\* a rounding that always adds a page
round_to_next_page(size) ==
    LET sum == usize_add(size, USize(1, 0))
    IN  [val |-> usize_and(sum.val, PageMask), overflow |-> sum.overflow]

\* the size as it is, not rounded
no_rounding(size) == [val |-> size, overflow |-> FALSE]

\* a rounding to the nearest page boundary
round_to_nearest_page(size) ==
    LET sum == usize_add(size, USize(0, PAGE_SIZE \div 2))
    IN  [val |-> usize_and(sum.val, PageMask), overflow |-> sum.overflow]

\* a rounding that never gives less than a page
round_up_min_page(size) ==
    LET sum == usize_add(size, USize(1, 0))
        dec == usize_sub(sum.val, USize(0, 1))
        up == usize_and(dec.val, PageMask)
    IN  [val |-> IF up = USize(0, 0) THEN USize(1, 0) ELSE up,
         overflow |-> sum.overflow \/ dec.overflow]

\* (size + PAGE_SIZE - 1) & !(PAGE_SIZE - 1), and whether an operation overflowed
round_up_to_page(size) ==
    LET sum == usize_add(size, USize(1, 0))
        dec == usize_sub(sum.val, USize(0, 1))
    IN  [val |-> usize_and(dec.val, PageMask), overflow |-> sum.overflow \/ dec.overflow]

\* an overflowing + or - wraps in a build without overflow checks and panics in
\* one with them; a program that makes several calls is one build
BuildOutcomes(overflow) ==
    IF ~overflow
    THEN {"wraps"}
    ELSE CASE scen = "heap" -> {"wraps"}
           [] scen = "heap-checked" -> {"panics"}
           [] OTHER -> {"wraps", "panics"}

KERN_SUCCESS == 0
KERN_INVALID_ADDRESS == 1
KERN_PROTECTION_FAILURE == 2
KERN_NO_SPACE == 3
KERN_INVALID_ARGUMENT == 4
KERN_FAILURE == 5
KERN_RESOURCE_SHORTAGE == 6

KernFailures == KERN_INVALID_ADDRESS..KERN_RESOURCE_SHORTAGE

(* The kernel, as the process sees it *)

\* the pages a region of the given size takes
PagesOf(size) == size.page + (IF size.off > 0 THEN 1 ELSE 0)

Region(base, size) == [base |-> base, size |-> size]

Overlap(r, q) ==
    /\ r.base.page < q.base.page + PagesOf(q.size)
    /\ q.base.page < r.base.page + PagesOf(r.size)

\* the pages of address space the kernel lets the process map
VmPages == 64

\* the page-aligned addresses the kernel places regions at
Bases == {USize(16, 0), USize(32, 0)}

\* the answers of vm_allocate(task_self(), &addr, size, 1), each with the regions
\* mapped afterwards: a base where the region fits and overlaps no mapped
\* region, or a failure that leaves addr null. A region of no pages maps
\* nothing: the kernel succeeds and stores a base, or leaves addr as the gateway
\* initialised it (let mut addr = core::ptr::null_mut())
vm_allocate(size) ==
    {[status |-> KERN_SUCCESS, addr |-> b,
      mapped |-> IF PagesOf(size) = 0 THEN mapped ELSE mapped \cup {Region(b, size)}] :
        b \in {a \in Bases : /\ a.page + PagesOf(size) <= VmPages
                             /\ \A q \in mapped : ~Overlap(Region(a, size), q)}
               \cup (IF PagesOf(size) = 0 THEN {NULL} ELSE {})}
    \cup {[status |-> k, addr |-> NULL, mapped |-> mapped] : k \in KernFailures}

\* if ret != KERN_SUCCESS { Err(ret) } else { Ok(addr) }
sys_vm_allocate(k) ==
    IF k.status # KERN_SUCCESS
    THEN [ok |-> FALSE, err |-> k.status]
    ELSE [ok |-> TRUE, ptr |-> k.addr]

atomVars == <<locked, mem, pc, cur, reg, done, hist, written, scen>>

\* the layout sizes the allocator is called with
SizePages == {0, 1, 4, PageCount \div 2 - 1, PageCount - 2, PageCount - 1}
SizeOffs == {0, 1, PAGE_SIZE - 1}
Sizes == {USize(p, o) : p \in SizePages, o \in SizeOffs}

\* the answers of vm_deallocate(task_self(), addr, size), each with the regions
\* mapped afterwards: the release of a mapped region, or of no pages, succeeds;
\* any other range is a caller error the kernel may refuse with any status or
\* carry out
Remains(r, lo, hi) ==
    LET a == r.base.page
        b == a + PagesOf(r.size)
    IN  IF lo >= hi \/ hi <= a \/ b <= lo
        THEN {r}
        ELSE {Region(USize(a, 0), USize(lo - a, 0)) : i \in IF a < lo THEN {1} ELSE {}}
             \cup {Region(USize(hi, 0), USize(b - hi, 0)) : i \in IF hi < b THEN {1} ELSE {}}

Unmapped(ptr, size) ==
    UNION {Remains(r, ptr.page, ptr.page + PagesOf(size)) : r \in mapped}

vm_deallocate(ptr, size) ==
    IF Region(ptr, size) \in mapped \/ PagesOf(size) = 0
    THEN {[status |-> KERN_SUCCESS, mapped |-> mapped \ {Region(ptr, size)}]}
    ELSE {[status |-> KERN_SUCCESS, mapped |-> Unmapped(ptr, size)]}
         \cup {[status |-> k, mapped |-> mapped] : k \in KernFailures}

\* if ret != KERN_SUCCESS { Err(ret) } else { Ok(()) }
sys_vm_deallocate(k) ==
    IF k.status # KERN_SUCCESS
    THEN [ok |-> FALSE, err |-> k.status]
    ELSE [ok |-> TRUE]

\* a match that turns the status of a failure into the pointer returned
ptr_or_status(r) == IF r.ok THEN r.ptr ELSE USize(0, r.err)

\* Ok(ptr) => ptr as *mut u8, Err(_) => ptr::null_mut()
ptr_or_null(r) == IF r.ok THEN r.ptr ELSE NULL

\* an alloc that hands out a mapped region of the right length once more, and
\* asks the kernel only when there is none
alloc_cached(size) ==
    /\ process = "running"
    /\ LET len == round_up_to_page(size).val
           held == {q \in mapped : q.size = len}
       IN  IF held # {}
           THEN \E q \in held :
                   /\ kcalls' = <<>>
                   /\ result' = [op |-> "alloc", size |-> size, ret |-> q.base]
                   /\ UNCHANGED mapped
           ELSE \E k \in vm_allocate(len) :
                   /\ kcalls' = <<[op |-> "vm_allocate", size |-> len, anywhere |-> 1,
                                   status |-> k.status, addr |-> k.addr,
                                   ret |-> sys_vm_allocate(k)]>>
                   /\ mapped' = k.mapped
                   /\ result' = [op |-> "alloc", size |-> size,
                                 ret |-> ptr_or_null(sys_vm_allocate(k))]
    /\ UNCHANGED <<process, atomVars>>

\* MachAllocator::alloc(layout), layout.size() being size
alloc(size) ==
    /\ process = "running"
    /\ LET rounded == round_up_to_page(size)
       IN  \E build \in BuildOutcomes(rounded.overflow) :
              IF build = "panics"
              THEN /\ process' = "panic"
                   /\ kcalls' = <<>>
                   /\ result' = [op |-> "alloc", size |-> size, ret |-> <<>>]
                   /\ UNCHANGED mapped
              ELSE \E k \in vm_allocate(rounded.val) :
                      LET r == sys_vm_allocate(k)
                      IN  /\ kcalls' = <<[op |-> "vm_allocate", size |-> rounded.val,
                                          anywhere |-> 1, status |-> k.status,
                                          addr |-> k.addr, ret |-> r]>>
                          /\ mapped' = k.mapped
                          /\ result' = [op |-> "alloc", size |-> size, ret |-> ptr_or_null(r)]
                          /\ UNCHANGED process
    /\ UNCHANGED atomVars

\* an unwrap of what the gateway returned: a failure ends the process
unwrap(r) == IF r.ok THEN "running" ELSE "panic"

\* let _ = sys_vm_deallocate(..): whatever the gateway returned, dealloc goes on
discard(r) == "running"

\* a dealloc that passes layout.size() as it is
dealloc_unrounded(ptr, size) ==
    /\ process = "running"
    /\ \E k \in vm_deallocate(ptr, size) :
          /\ kcalls' = <<[op |-> "vm_deallocate", size |-> size, status |-> k.status,
                          addr |-> ptr, ret |-> sys_vm_deallocate(k)]>>
          /\ mapped' = k.mapped
          /\ result' = [op |-> "dealloc", ptr |-> ptr, size |-> size, ret |-> "unit"]
    /\ UNCHANGED <<process, atomVars>>

\* a dealloc that asks the kernel only for a region it knows to be handed out
dealloc_known(ptr, size) ==
    /\ process = "running"
    /\ LET len == round_up_to_page(size).val
       IN  IF Region(ptr, len) \in mapped
           THEN /\ kcalls' = <<[op |-> "vm_deallocate", size |-> len, status |-> KERN_SUCCESS,
                                addr |-> ptr, ret |-> [ok |-> TRUE]]>>
                /\ mapped' = mapped \ {Region(ptr, len)}
           ELSE /\ kcalls' = <<>>
                /\ UNCHANGED mapped
    /\ result' = [op |-> "dealloc", ptr |-> ptr, size |-> size, ret |-> "unit"]
    /\ UNCHANGED <<process, atomVars>>

\* MachAllocator::dealloc(ptr, layout), layout.size() being size
dealloc(ptr, size) ==
    /\ process = "running"
    /\ LET rounded == round_up_to_page(size)
       IN  \E build \in BuildOutcomes(rounded.overflow) :
              IF build = "panics"
              THEN /\ process' = "panic"
                   /\ kcalls' = <<>>
                   /\ result' = [op |-> "dealloc", ptr |-> ptr, size |-> size, ret |-> <<>>]
                   /\ UNCHANGED mapped
              ELSE \E k \in vm_deallocate(ptr, rounded.val) :
                      LET r == sys_vm_deallocate(k)
                      IN  /\ kcalls' = <<[op |-> "vm_deallocate", size |-> rounded.val,
                                          status |-> k.status, addr |-> ptr, ret |-> r]>>
                          /\ mapped' = k.mapped
                          /\ process' = discard(r)
                          /\ result' = [op |-> "dealloc", ptr |-> ptr, size |-> size,
                                        ret |-> IF discard(r) = "running" THEN "unit" ELSE <<>>]
    /\ UNCHANGED atomVars

\* an alloc_zeroed that clears the region it was given
alloc_then_clear(size) ==
    /\ process = "running"
    /\ \E k \in vm_allocate(round_up_to_page(size).val) :
          /\ kcalls' = <<[op |-> "vm_allocate", size |-> round_up_to_page(size).val,
                          anywhere |-> 1, status |-> k.status, addr |-> k.addr,
                          ret |-> sys_vm_allocate(k)]>>
                        \o (IF k.status = KERN_SUCCESS
                            THEN <<[op |-> "write_bytes", addr |-> k.addr, byte |-> 0,
                                    len |-> size]>>
                            ELSE <<>>)
          /\ mapped' = k.mapped
          /\ result' = [op |-> "alloc", size |-> size,
                        ret |-> ptr_or_null(sys_vm_allocate(k))]
    /\ UNCHANGED <<process, atomVars>>

\* MachAllocator::alloc_zeroed(layout): self.alloc(layout)
alloc_zeroed(size) == alloc(size)

\* b"memory allocation failed\n" and its length
msg == "memory allocation failed\n"
MsgLen == 25

\* what write(fd, data.as_ptr(), data.len()) may return for the message: an
\* error, nothing written, a part, all of it
WriteRets == {-1, 0, MsgLen - 1, MsgLen}

\* if ret < 0 { Err(-1) } else { Ok(ret as usize) }
sys_write(ret) ==
    IF ret < 0
    THEN [ok |-> FALSE, err |-> -1]
    ELSE [ok |-> TRUE, n |-> ret]

\* unsafe { _exit(code) }
sys_exit(code) == <<[op |-> "_exit", code |-> code]>>

\* an alloc_error that returns when the write has failed
exit_if_written(w) == IF w.ok THEN sys_exit(1) ELSE <<>>

\* an alloc_error that writes again when the message was not written whole
write_again(w) ==
    IF w.ok /\ w.n = MsgLen
    THEN sys_exit(1)
    ELSE <<[op |-> "write", fd |-> 2, data |-> msg, len |-> MsgLen,
            status |-> MsgLen, ret |-> sys_write(MsgLen)]>> \o sys_exit(1)

\* let _ = sys_write(2, msg); sys_exit(1): the kernel calls after the write
after_write(w) == sys_exit(1)

\* alloc_error(layout), up to its call of write
alloc_error ==
    /\ process = "running"
    /\ process' = "write"
    /\ kcalls' = <<>>
    /\ result' = [op |-> "alloc_error", ret |-> <<>>]
    /\ called' = "alloc_error"
    /\ UNCHANGED <<mapped, atomVars>>

\* alloc_error(layout), from the return of write
write_returns ==
    /\ process = "write"
    /\ \E ret \in WriteRets :
          LET tail == after_write(sys_write(ret))
          IN  /\ kcalls' = <<[op |-> "write", fd |-> 2, data |-> msg, len |-> MsgLen,
                              status |-> ret, ret |-> sys_write(ret)]>> \o tail
              /\ process' = IF tail # <<>> THEN "exited" ELSE "running"
    /\ UNCHANGED <<mapped, result, called, atomVars>>

\* the addresses the program hands back: the kernel's bases and one that was
\* never handed out
Ptrs == Bases \cup {USize(48, 0)}

\* the program calls alloc with sizes up to the largest of the size type
AllocCall == \E size \in Sizes : alloc(size) /\ called' = "alloc"

NextAlloc == AllocCall

InitAlloc ==
    /\ InitCallers
    /\ scen = "alloc"
    /\ mem = FreeMem

SpecAlloc == InitAlloc /\ [][NextAlloc]_vars

\* the layout sizes of a program that allocates, releases and gives up: nothing,
\* a byte, a page, 16384 (test_large_alloc), a byte more, and the two ends of
\* the last page of the size type
HeapSizes ==
    {USize(0, 0), USize(0, 1), USize(1, 0), USize(4, 0), USize(4, 1),
     USize(PageCount - 1, 0), USize(PageCount - 1, PAGE_SIZE - 1)}

HeapAllocCall == \E size \in HeapSizes : alloc(size) /\ called' = "alloc"

\* the range dealloc(ptr, size) names covers a part of a mapped region
Splits(ptr, size) ==
    LET len == round_up_to_page(size).val
    IN  \E r \in mapped :
           Remains(r, ptr.page, ptr.page + PagesOf(len)) \notin {{}, {r}}

\* the program hands back a region it was given, or (by mistake) one it does
\* not hold; it never hands back a part of a region
DeallocCall ==
    \E ptr \in Ptrs, size \in HeapSizes :
        /\ ~Splits(ptr, size)
        /\ dealloc(ptr, size)
        /\ called' = "dealloc"

AllocZeroedCall == \E size \in HeapSizes : alloc_zeroed(size) /\ called' = "alloc_zeroed"

NextHeap ==
    \/ HeapAllocCall
    \/ DeallocCall
    \/ AllocZeroedCall
    \/ alloc_error
    \/ write_returns

InitHeap ==
    /\ InitCallers
    /\ scen \in {"heap", "heap-checked"}
    /\ mem = FreeMem

SpecHeap == InitHeap /\ [][NextHeap]_vars

\* the kernel returns from every call it is given
SpecHeapFair == SpecHeap /\ WF_vars(write_returns)

\* a size of less than 2^31, in bytes
InBytes(u) == u.page * PAGE_SIZE + u.off

Allocated == result # <<>> /\ result.op = "alloc"

(* C19: for every requested size s in 1..4096, allocate requests exactly 4096
   bytes from the kernel's VM service and, when the kernel succeeds with a
   page-aligned base, returns that base unchanged: the returned address is a
   multiple of 4096 and the region mapped there is 4096 bytes long. *)
C19_SmallAllocation ==
    (Allocated /\ result.size.page <= 1 /\ InBytes(result.size) \in 1..4096) =>
        /\ process = "running"
        /\ Len(kcalls) = 1
        /\ kcalls[1].op = "vm_allocate"
        /\ InBytes(kcalls[1].size) = 4096
        /\ (kcalls[1].status = KERN_SUCCESS /\ InBytes(kcalls[1].addr) % 4096 = 0) =>
               /\ result.ret = kcalls[1].addr
               /\ result.ret.off = 0
               /\ \E q \in mapped : q.base = result.ret /\ InBytes(q.size) = 4096

\* allocate(1) has returned the base of a page the kernel mapped
C19_Witness ==
    /\ Allocated
    /\ result.size = USize(0, 1)
    /\ kcalls[1].status = KERN_SUCCESS
    /\ result.ret = USize(32, 0)

\* the number of pages that hold s bytes
CeilPages(s) == IF s.off = 0 THEN s.page ELSE s.page + 1

\* the size is more than 4096
AbovePage(s) == s.page > 1 \/ (s.page = 1 /\ s.off > 0)

\* allocate passed to the kernel the request rounded up to whole pages
PassedCeil ==
    /\ Len(kcalls) = 1
    /\ kcalls[1].op = "vm_allocate"
    /\ kcalls[1].size.off = 0
    /\ kcalls[1].size.page = CeilPages(result.size)

(* C20: for all sizes s > 4096 representable in the 32-bit size type, the size
   allocate passes to the kernel equals ceil(s / 4096) * 4096; a size that is
   already a multiple of 4096 is passed unchanged. *)
C20_RoundsUp == (Allocated /\ AbovePage(result.size)) => PassedCeil

(* C20, amended: for all sizes s with 4096 < s < 2^32 - 4096, the size allocate
   passes to the kernel equals ceil(s / 4096) * 4096; a size that is already a
   multiple of 4096 is passed unchanged. *)
C20_RoundsUpBelowTop ==
    (Allocated /\ AbovePage(result.size) /\ result.size.page < PageCount - 1) =>
        (PassedCeil /\ process = "running")

\* allocate(16385) has passed 20480 to the kernel
C20_Witness ==
    /\ Allocated
    /\ result.size = USize(4, 1)
    /\ Len(kcalls) = 1
    /\ kcalls[1].size = USize(5, 0)

\* the calls of the kernel's VM service among the calls of the latest entry
VmCalls == {i \in 1..Len(kcalls) : kcalls[i].op \in {"vm_allocate", "vm_deallocate"}}

(* C21: every length the allocator passes to vm_allocate or vm_deallocate is a
   multiple of 4096, whatever size was requested, so every region handed out
   or released has a length of whole pages. *)
C21_PageMultiple ==
    /\ \A i \in VmCalls : kcalls[i].size.off = 0
    /\ \A q \in mapped : q.size.off = 0

\* dealloc of a one-byte layout has passed 4096 to vm_deallocate
C21_Witness ==
    /\ called = "dealloc"
    /\ result.size = USize(0, 1)
    /\ VmCalls = {1}
    /\ kcalls[1].op = "vm_deallocate"
    /\ kcalls[1].size = USize(1, 0)

\* the latest call was alloc or alloc_zeroed and the kernel refused its request
AllocFailed ==
    /\ called \in {"alloc", "alloc_zeroed"}
    /\ Len(kcalls) >= 1
    /\ kcalls[1].op = "vm_allocate"
    /\ kcalls[1].status # KERN_SUCCESS

(* C22: whenever vm_allocate returns a status other than success, alloc (and
   alloc_zeroed) returns the null pointer, writes nothing to the error stream,
   does not end the process and makes no further kernel call; what it returns
   is the same for every status, so the caller cannot see the status. *)
C22_FailureIsNull ==
    AllocFailed =>
        /\ result = [op |-> "alloc", size |-> result.size, ret |-> NULL]
        /\ Len(kcalls) = 1
        /\ process = "running"

\* the kernel answered KERN_NO_SPACE to alloc of 16384 bytes
C22_Witness ==
    /\ AllocFailed
    /\ called = "alloc"
    /\ result.size = USize(4, 0)
    /\ kcalls[1].status = KERN_NO_SPACE
    /\ kcalls[1].ret = [ok |-> FALSE, err |-> KERN_NO_SPACE]

\* the latest call was dealloc and the kernel has answered its request
Released ==
    /\ called = "dealloc"
    /\ Len(kcalls) >= 1
    /\ kcalls[1].op = "vm_deallocate"

(* C23: for every status the kernel returns from vm_deallocate, dealloc returns
   normally to its caller, has issued exactly one vm_deallocate call (no
   retry), writes no diagnostic and does not end the process. *)
C23_DeallocSwallows ==
    Released =>
        /\ Len(kcalls) = 1
        /\ result.ret = "unit"
        /\ process = "running"

\* the kernel refused the release of an address it had not handed out
C23_Witness ==
    /\ Released
    /\ result.ptr = USize(48, 0)
    /\ kcalls[1].status = KERN_INVALID_ADDRESS
    /\ kcalls[1].ret = [ok |-> FALSE, err |-> KERN_INVALID_ADDRESS]
    /\ result.ret = "unit"

\* the latest call was alloc or alloc_zeroed and it returned a region
Handed ==
    /\ called \in {"alloc", "alloc_zeroed"}
    /\ Len(kcalls) = 1
    /\ kcalls[1].status = KERN_SUCCESS
    /\ process = "running"

\* the regions mapped before the allocation that has just handed out a region:
\* the kernel maps only pages that were not mapped (C25)
MappedBefore ==
    IF PagesOf(kcalls[1].size) = 0
    THEN mapped
    ELSE mapped \ {Region(kcalls[1].addr, kcalls[1].size)}

\* this step is the dealloc of the region just handed out, with its layout
HandsBack ==
    /\ Handed
    /\ called' = "dealloc"
    /\ result'.ptr = result.ret
    /\ result'.size = result.size

\* dealloc passes the base and the length the allocation passed, the kernel
\* reports no error and maps what it mapped before the allocation
RoundTrip ==
    HandsBack =>
        /\ Len(kcalls') = 1
        /\ kcalls'[1].op = "vm_deallocate"
        /\ kcalls'[1].addr = result.ret
        /\ kcalls'[1].addr = kcalls[1].addr
        /\ kcalls'[1].size = kcalls[1].size
        /\ kcalls'[1].status = KERN_SUCCESS
        /\ mapped' = MappedBefore
        /\ process' = "running"

(* C24: for every size s, dealloc(p, s) passes to vm_deallocate exactly the base
   p and exactly the length that alloc(s) passed to vm_allocate, so after alloc
   followed by dealloc with the same size the kernel maps the same regions as
   before the alloc and reports no error. *)
C24_RoundTrip == [][RoundTrip]_vars

\* test_large_alloc: 16384 bytes were handed out at page 16 and handed back
C24_Witness ==
    /\ Released
    /\ result.ptr = USize(16, 0)
    /\ result.size = USize(4, 0)
    /\ kcalls[1].size = USize(4, 0)
    /\ kcalls[1].status = KERN_SUCCESS
    /\ mapped = {}

\* the latest call was alloc or alloc_zeroed and it has returned
AllocReturned ==
    /\ called \in {"alloc", "alloc_zeroed"}
    /\ process = "running"

\* alloc has made one vm_allocate(anywhere) call, and an address it returns is
\* the one the kernel has just mapped the region at
OneAllocation ==
    AllocReturned =>
        /\ Len(kcalls) = 1
        /\ kcalls[1].op = "vm_allocate"
        /\ kcalls[1].anywhere = 1
        /\ result.ret # NULL =>
              /\ kcalls[1].status = KERN_SUCCESS
              /\ result.ret = kcalls[1].addr
              /\ PagesOf(kcalls[1].size) > 0 =>
                    Region(result.ret, kcalls[1].size) \in mapped

\* dealloc has made one vm_deallocate call
OneRelease ==
    (called = "dealloc" /\ process = "running") =>
        (Len(kcalls) = 1 /\ kcalls[1].op = "vm_deallocate")

\* the regions mapped at the same time do not overlap
Disjoint == \A r \in mapped : \A q \in mapped \ {r} : ~Overlap(r, q)

\* the pages of a region alloc returns were not mapped when alloc was called
FreshMapping ==
    (called' \in {"alloc", "alloc_zeroed"} /\ process' = "running"
     /\ result'.ret # NULL /\ PagesOf(kcalls'[1].size) > 0) =>
        /\ \A q \in mapped : ~Overlap(Region(result'.ret, kcalls'[1].size), q)
        /\ mapped' = mapped \cup {Region(result'.ret, kcalls'[1].size)}

(* C25: after any sequence of alloc and dealloc calls, every alloc has issued
   exactly one fresh vm_allocate (anywhere) call and every dealloc exactly one
   vm_deallocate call; alloc never returns an address without a new kernel
   mapping, and the regions live at the same time never overlap. *)
C25_NoReuse ==
    /\ [](OneAllocation /\ OneRelease /\ Disjoint)
    /\ [][FreshMapping]_vars

\* a page handed out at page 32 while 16384 bytes are live at page 16
C25_Witness ==
    /\ AllocReturned
    /\ called = "alloc"
    /\ result.ret = USize(32, 0)
    /\ kcalls[1].size = USize(1, 0)
    /\ mapped = {Region(USize(16, 0), USize(4, 0)), Region(USize(32, 0), USize(1, 0))}

\* a step that is a call of alloc_zeroed is a call of alloc with the same
\* layout (the one request to the kernel, the same answer returned, nothing
\* else done), and every call of alloc is a possible call of alloc_zeroed
ZeroedIsAlloc ==
    /\ called' = "alloc_zeroed" => alloc(result'.size)
    /\ called' = "alloc" => alloc_zeroed(result'.size)

(* C26: alloc_zeroed is equivalent to alloc: for every layout and every answer
   of the kernel, alloc_zeroed issues the same single vm_allocate request and
   returns the same result as alloc, and writes nothing to the memory it
   returns. *)
C26_ZeroedIsAlloc == [][ZeroedIsAlloc]_vars

\* alloc_zeroed of a one-byte layout has returned the page the kernel mapped
C26_Witness ==
    /\ called = "alloc_zeroed"
    /\ result = [op |-> "alloc", size |-> USize(0, 1), ret |-> USize(16, 0)]
    /\ Len(kcalls) = 1
    /\ kcalls[1].op = "vm_allocate"
    /\ kcalls[1].size = USize(1, 0)
    /\ mapped = {Region(USize(16, 0), USize(1, 0))}

\* the process has ended by _exit(1), after the one write of alloc_error
ExitedWithOne ==
    process = "exited" =>
        /\ called = "alloc_error"
        /\ Len(kcalls) = 2
        /\ kcalls[1].op = "write"
        /\ kcalls[2] = [op |-> "_exit", code |-> 1]

\* from the call of alloc_error on, the only step is the one that ends the
\* process: no call of the allocator, no return to the caller
OnlyExit == called = "alloc_error" => (called' = "alloc_error" /\ process' = "exited")

(* C27: alloc_error never returns: every invocation ends with the end of the
   process with exit status 1, also when the diagnostic write fails or writes
   fewer bytes than the message; it never retries the allocation and never
   resumes the caller. *)
C27_NeverReturns ==
    /\ (called = "alloc_error") ~> (process = "exited")
    /\ []ExitedWithOne
    /\ [][OnlyExit]_vars

\* the write of the diagnostic failed and the process has ended by _exit(1)
C27_Witness ==
    /\ process = "exited"
    /\ Len(kcalls) = 2
    /\ kcalls[1].ret = [ok |-> FALSE, err |-> -1]
    /\ kcalls[2].code = 1

\* what the gateway returns to its caller when the kernel answers status s
Reported(op, s) ==
    IF op = "vm_allocate"
    THEN sys_vm_allocate([status |-> s, addr |-> NULL])
    ELSE sys_vm_deallocate([status |-> s])

\* the statuses of nextstep-sys that are none of resource exhaustion (no space,
\* resource shortage), invalid argument and protection failure
NoKind ==
    KernFailures \ {KERN_NO_SPACE, KERN_RESOURCE_SHORTAGE, KERN_INVALID_ARGUMENT,
                    KERN_PROTECTION_FAILURE}

(* C28: every status other than success that the kernel returns for vm_allocate
   or vm_deallocate is reported to the caller as exactly one of four kinds
   (resource-exhausted, invalid-argument, protection-failure, unknown), so the
   reports take at most four values, and every status without a kind of its
   own is reported as unknown, the same as any other such status. *)
C28_FourKinds ==
    \A i \in VmCalls :
        kcalls[i].status # KERN_SUCCESS =>
            /\ kcalls[i].ret = Reported(kcalls[i].op, kcalls[i].status)
            /\ Cardinality({Reported(kcalls[i].op, s) : s \in KernFailures}) <= 4
            /\ kcalls[i].status \in NoKind =>
                  \A s \in NoKind : kcalls[i].ret = Reported(kcalls[i].op, s)

\* the interrupting context is at the flag test of a stripe whose flag is set:
\* only the interrupted code clears it, and that code does not run
HandlerBlocked ==
    /\ pc[Interrupting] \in {"test", "spin"}
    /\ locked[addr_to_lock_idx(cur[Interrupting].req.addr)] # 0

\* when both calls have returned, their results and the word are those of the
\* two calls made one after the other in some order
IrqSequential ==
    (scen = "irq" /\ Quiescent) =>
        LinFrom(WA, [c \in Callers |-> 0], ReadWord(FreeMem, WA.addr, WA.width))

(* C29: on a single core, if an operation is interrupted at any step (before
   the flag test, between the flag test and the flag set, inside the critical
   section, or before release) and the interrupting context, which runs to
   completion before the interrupted code resumes, issues an atomic operation
   on an address of the same stripe, then both operations complete (the
   interrupting one is never held at the flag) and both return values
   consistent with a sequential order. *)
C29_InterruptSafe == ~HandlerBlocked /\ IrqSequential

(* C30: the lock flag reflects ownership. In every reachable state, if some
   caller is inside the critical section of stripe k (after its acquire
   returned and before its release clears the flag) then the flag of stripe k
   is 1: the flag is never cleared while a caller that acquired it is still in
   its critical section. *)
C30_FlagReflectsOwnership ==
    \A c \in Callers : InCritical(c) => locked[Idx(c)] = 1

\* no flag of the table is set
AllClear == locked = [i \in 0..(SPINLOCK_COUNT - 1) |-> 0]

(* C31: every operation releases what it acquired. Each load, store, exchange,
   compare-and-swap (successful or failed) and fetch-and-add clears the flag of
   its stripe before returning, so in every state where no operation is in
   progress all 64 lock flags are 0; all flags are 0 initially. *)
C31_ReleasesWhatItAcquired == Quiescent => AllClear

\* two calls have returned, one of them a compare-and-swap that failed, and no
\* call is in progress
C31_Witness ==
    /\ Quiescent
    /\ AllClear
    /\ \E c \in Callers : \E d \in Callers \ {c} :
          /\ Len(hist[c]) = 1
          /\ Len(hist[d]) = 1
          /\ hist[c][1].req.kind = "cas"
          /\ hist[c][1].ret # hist[c][1].req.a1

\* caller c reads the target word into its local, or writes the word, in this step
Accesses(c) ==
    \/ reg'[c] # reg[c] /\ reg'[c] # Unit
    \/ mem' # mem /\ StepOf(c)

\* an access is a step of the critical section: the caller's acquire has
\* returned, its release is still to come, and the step leaves the flags alone
AccessInside ==
    \A c \in Callers :
        Accesses(c) =>
            /\ pc[c] \in {"cs1", "cs2"}
            /\ pc'[c] \in {"cs2", "rel"}
            /\ locked' = locked

\* a call that took the lock returns from its release, and returns the local
\* read in its critical section
ReturnsLocal ==
    \A c \in Callers :
        (done'[c] # done[c] /\ hist'[c][Len(hist'[c])].req.kind # "fence") =>
            /\ pc[c] = "rel"
            /\ hist'[c][Len(hist'[c])].ret = RetVal(Req(c), reg[c])
            /\ Req(c).kind \in {"load", "exchange", "cas", "faa"} =>
                  hist'[c][Len(hist'[c])].ret # Unit

(* C32: accesses happen only inside the critical section. For every operation,
   each read and each write of the target word occurs after that operation's
   acquire of its stripe has completed and before its release clears the flag;
   the value returned is the one read inside the critical section. *)
C32_AccessInsideCritical == [][AccessInside /\ ReturnsLocal]_vars

\* an exchange has returned the value it read in its critical section and left
\* its operand in the word
C32_Witness ==
    /\ Quiescent
    /\ \E c \in Callers :
          /\ Len(hist[c]) = 1
          /\ hist[c][1].req.kind = "exchange"
          /\ hist[c][1].ret = ReadWord(FreeMem, WA.addr, WA.width)
          /\ ReadWord(mem, WA.addr, WA.width) = hist[c][1].req.a1

\* the steps a caller has left before it has released: first access, second
\* access, release
Rank(p) ==
    CASE p = "cs1" -> 3
      [] p = "cs2" -> 2
      [] p = "rel" -> 1
      [] OTHER -> 0

\* every flag that is set is the flag of the one stripe of a caller that is in
\* its critical section: a caller that waits or is idle holds nothing
HoldsOwnStripe == Held \subseteq {Idx(c) : c \in {d \in Callers : InCritical(d)}}

\* a caller in its critical section takes no other lock and makes no call: each
\* of its steps is the next access or the release of its own stripe
CriticalSteps ==
    \A c \in Callers :
        (InCritical(c) /\ StepOf(c)) =>
            /\ Rank(pc'[c]) < Rank(pc[c])
            /\ cur'[c] = IF pc[c] = "rel" THEN NoCall ELSE cur[c]
            /\ locked' = IF pc[c] = "rel"
                         THEN [locked EXCEPT ![Idx(c)] = 0]
                         ELSE locked

(* C33: no nested locking. In every reachable state each caller holds at most
   one stripe, and between acquiring and releasing a stripe a caller performs
   no lock acquisition and no call outside the operation, so it releases after
   a fixed finite number of its own steps and no cycle of callers waiting on
   each other's stripes can form. *)
C33_NoNestedLocking == []HoldsOwnStripe /\ [][CriticalSteps]_vars

\* caller 1 is before its second access on stripe 16 while caller 2 waits at
\* the flag of that stripe, holding nothing
C33_Witness ==
    /\ pc[1] = "cs2"
    /\ pc[2] = "test"
    /\ Idx(1) = Idx(2)
    /\ Held = {Idx(1)}

\* the bytes of the word the call of caller c is made on
TargetBytes(c) == Bytes(Word(Req(c).addr, Req(c).width))

\* a step that changes memory is a step of one call and changes no byte outside
\* the w bytes of its word
WidthFrame ==
    mem' # mem =>
        \E c \in Callers :
            /\ StepOf(c)
            /\ \A x \in DOMAIN mem \ TargetBytes(c) : mem'[x] = mem[x]

(* C34: width isolation. An operation of width w at address a changes at most
   the w bytes a..a+w-1; a 1- or 2-byte store, exchange, compare-and-swap or
   fetch-and-add leaves the neighbouring bytes of the enclosing 4-byte word
   unchanged, and a fetch-and-add that wraps does not carry into the adjacent
   byte. *)
C34_WidthIsolation == [][WidthFrame]_vars

\* the 2-byte fetch-and-add at 260 has wrapped (0xE4E5 + 0xFFFF) and the byte
\* at 259, the next more significant one, is as it was
C34_Witness ==
    /\ scen = "seq"
    /\ Len(hist[Owner]) = 0
    /\ pc[Owner] = "idle"
    /\ Len(hist[Near]) = 1
    /\ hist[Near][1].req.kind = "faa"
    /\ hist[Near][1].req.addr = 260
    /\ hist[Near][1].pre = <<228, 229>>
    /\ hist[Near][1].post = <<228, 228>>
    /\ mem[259] = 255

\* the accesses of width w2 at b and of width w at a are naturally aligned and
\* have a byte in common
AlignedOverlap(a, w, b, w2) ==
    /\ a % w = 0
    /\ b >= 0
    /\ b % w2 = 0
    /\ b < a + w
    /\ a < b + w2

(* C35: overlapping accesses share a stripe. For any two naturally aligned
   accesses of widths in {1, 2, 4} whose byte ranges overlap (for example a
   1-byte access inside a 4-byte word), both select the same stripe index, so
   mixed-width accesses to the same bytes are serialised by the same lock. *)
C35_OverlapSharesStripe ==
    \A c \in Callers :
        (scen = "hash" /\ pc[c] # "idle") =>
            \A w2 \in Widths : \A b \in (Req(c).addr - 3)..(Req(c).addr + 3) :
                AlignedOverlap(Req(c).addr, Req(c).width, b, w2) =>
                    addr_to_lock_idx(b) = addr_to_lock_idx(Req(c).addr)

\* a call on the 4-byte word at 268, the last of its 16-byte line, holds stripe
\* 16, which is also the stripe of each of its bytes
C35_Witness ==
    /\ scen = "hash"
    /\ pc[Owner] = "cs2"
    /\ Req(Owner).addr = 268
    /\ Req(Owner).width = 4
    /\ Held = {addr_to_lock_idx(271)}

----------------------------------------------------------------------------
(* Independent stripes *)

\* callers on two stripes, every call recorded
InitHeld ==
    /\ InitCallers
    /\ scen = "held"
    /\ mem = FreeMem

\* callers that may stop inside their critical section, each of the others
\* scheduled for as long as it is inside a call
SpecHeldFair == InitHeld /\ [][NextHung]_vars /\ \A c \in Callers : WF_vars(Run(c))

\* another caller has stopped holding a stripe that is not the stripe of c's call
ForeignStripeHeld(c) ==
    \E h \in Callers \ {c} :
        pc[h] = "halt" /\ locked[Idx(h)] # 0 /\ Idx(h) # Idx(c)

\* another caller is inside a call on the stripe of c's call
SharesStripe(c) ==
    \E e \in Callers \ {c} : pc[e] # "idle" /\ Idx(e) = Idx(c)

\* the loop of acquire_spinlock is left exactly when the flag of the call's own
\* stripe reads 0, whatever the other 63 flags hold
WaitsOnOwnFlagOnly ==
    \A c \in Callers :
        (pc[c] = "test" /\ StepOf(c)) => ((pc'[c] = "set") <=> (locked[Idx(c)] = 0))

\* a call that runs while a foreign stripe is held by a stopped caller returns,
\* unless a caller arrives on its own stripe or it is itself stopped
ForeignHolderNoDelay ==
    \A c \in Callers :
        (pc[c] \notin {"idle", "halt", "spin"} /\ ForeignStripeHeld(c) /\ ~SharesStripe(c))
            ~> (pc[c] \in {"idle", "halt"} \/ SharesStripe(c))

(* C36: stripes are independent. An operation on an address hashing to stripe
   j never waits on the state of another stripe i: its acquire loop ends
   exactly when flag j reads 0, and it returns even while stripe i is held
   forever by a caller that stopped there. *)
C36_StripesIndependent == [][WaitsOnOwnFlagOnly]_vars /\ ForeignHolderNoDelay

\* a caller stopped in its first call, holding stripe 16, before the other
\* caller's exchange on WD, stripe 17, was made; that exchange has returned
C36_Witness ==
    \E c, h \in Callers :
        /\ pc[h] = "halt" /\ hist[h] = <<>> /\ Idx(h) = 16 /\ locked[16] = 1
        /\ Req(h).kind = "store" /\ ReadWord(mem, WA.addr, WA.width) = Req(h).a1
        /\ pc[c] = "idle" /\ Len(hist[c]) = 1
        /\ hist[c][1].req = Exchange(WD, Val(4, 34))
        /\ locked[17] = 0
        /\ ReadWord(mem, WD.addr, WD.width) = Val(4, 34)

----------------------------------------------------------------------------
(* The order of the kernel calls of alloc_error *)

\* the kernel calls alloc_error has made, in order
HandlerCalls == IF called = "alloc_error" THEN kcalls ELSE <<>>

\* the write attempts among them
WriteAttempts == {i \in 1..Len(HandlerCalls) : HandlerCalls[i].op = "write"}

\* the one write: the fixed message, all 25 bytes of it, to descriptor 2
IsTheWrite(k) ==
    /\ k.op = "write"
    /\ k.fd = 2
    /\ k.data = "memory allocation failed\n"
    /\ k.len = 25

(* C37: alloc_error makes exactly one write attempt, of the fixed message
   "memory allocation failed\n" to descriptor 2, and it comes before _exit:
   nothing precedes the write, the write is not repeated after a partial or
   failed write, and _exit is the next and last kernel call. *)
C37_OneWriteThenExit ==
    called = "alloc_error" =>
        IF process = "write"
        THEN HandlerCalls = <<>>
        ELSE /\ Len(HandlerCalls) = 2
             /\ IsTheWrite(HandlerCalls[1])
             /\ WriteAttempts = {1}
             /\ HandlerCalls[2].op = "_exit"

\* the write took 24 of the 25 bytes; it was not repeated and _exit followed
C37_Witness ==
    /\ called = "alloc_error"
    /\ process = "exited"
    /\ HandlerCalls[1].ret = [ok |-> TRUE, n |-> 24]
    /\ WriteAttempts = {1}
    /\ HandlerCalls[2].op = "_exit"

----------------------------------------------------------------------------
(* The allocator keeps nothing between calls *)

\* what a request to the kernel's VM service asks for
Asked(k) == [op |-> k.op, addr |-> IF k.op = "vm_deallocate" THEN k.addr ELSE NULL,
             size |-> k.size]

\* the latest call, with a layout whose rounded size fits the size type, has
\* made the one request its arguments name and has returned: dealloc the
\* release of layout.size() rounded at ptr, whether or not a region is mapped
\* there, and alloc the allocation of layout.size() rounded
ForwardedAsIs ==
    (called \in {"alloc", "alloc_zeroed", "dealloc"}
        /\ ~round_up_to_page(result.size).overflow) =>
        /\ process = "running"
        /\ Len(kcalls) = 1
        /\ Asked(kcalls[1]) =
              IF called = "dealloc"
              THEN [op |-> "vm_deallocate", addr |-> result.ptr,
                    size |-> round_up_to_page(result.size).val]
              ELSE [op |-> "vm_allocate", addr |-> NULL,
                    size |-> round_up_to_page(result.size).val]
        /\ called = "dealloc" => result.ret = "unit"

\* this step is the dealloc of what the dealloc before it has released
ReleasedAgain ==
    /\ Released
    /\ kcalls[1].status = KERN_SUCCESS
    /\ called' = "dealloc"
    /\ result'.ptr = result.ptr
    /\ result'.size = result.size

\* the second dealloc makes the request the first made, and returns
SecondIsForwarded ==
    ReleasedAgain =>
        /\ Len(kcalls') = 1
        /\ Asked(kcalls'[1]) = Asked(kcalls[1])
        /\ result'.ret = "unit"
        /\ process' = "running"

(* C38: the allocator keeps no state. dealloc of an address alloc never
   returned, or of one already released, makes the same vm_deallocate request
   as a valid release and returns normally; what alloc and dealloc ask of the
   kernel depends on their arguments alone, not on the calls made before. *)
C38_NoAllocatorState == []ForwardedAsIs /\ [][SecondIsForwarded]_vars

\* the page at page 16 is released while no region is mapped there (page 32
\* is still handed out); the kernel refused and dealloc returned
C38_Witness ==
    /\ called = "dealloc"
    /\ result = [op |-> "dealloc", ptr |-> USize(16, 0), size |-> USize(1, 0), ret |-> "unit"]
    /\ kcalls[1].addr = USize(16, 0)
    /\ kcalls[1].size = USize(1, 0)
    /\ kcalls[1].status = KERN_INVALID_ADDRESS
    /\ mapped = {Region(USize(32, 0), USize(1, 0))}
    /\ process = "running"

----------------------------------------------------------------------------
(* Requests of size 0 *)

\* the latest call had a layout of size 0
ZeroSized(op) == called = op /\ result.size = USize(0, 0)

\* the call made one request to the kernel, of length 0
PassedZero(op) ==
    /\ process = "running"
    /\ Len(kcalls) = 1
    /\ kcalls[1].op = op
    /\ kcalls[1].size = USize(0, 0)

\* alloc of size 0 asks vm_allocate for 0 bytes and returns the address the
\* kernel stored when it succeeds and null when it fails; dealloc of size 0
\* asks vm_deallocate to release 0 bytes at the address it was given
ZeroSizeForwarded ==
    /\ ZeroSized("alloc") =>
          /\ PassedZero("vm_allocate")
          /\ kcalls[1].status = KERN_SUCCESS => result.ret = kcalls[1].addr
          /\ kcalls[1].status # KERN_SUCCESS => result.ret = NULL
    /\ ZeroSized("dealloc") =>
          /\ PassedZero("vm_deallocate")
          /\ kcalls[1].addr = result.ptr

\* alloc of size 0 has returned null only if the kernel failed
ZeroNullIsFailure ==
    (ZeroSized("alloc") /\ result.ret = NULL) => kcalls[1].status # KERN_SUCCESS

(* C39: alloc with size 0 rounds to 0 pages and passes length 0 to vm_allocate,
   returning the kernel's base address on success and null only on kernel
   failure; dealloc with size 0 likewise passes length 0 to vm_deallocate. *)
C39_ZeroSize == ZeroSizeForwarded /\ ZeroNullIsFailure

(* C39, amended: alloc with size 0 rounds to 0 pages and passes length 0 to
   vm_allocate, returning the address the kernel stored on success, which for
   a region of no pages may be null, and null on every kernel failure; dealloc
   with size 0 likewise passes length 0 to vm_deallocate. *)
C39_ZeroSizeForwarded == ZeroSizeForwarded

\* the kernel succeeded on a request of 0 bytes without storing an address, and
\* alloc returned null
C39_Witness ==
    /\ ZeroSized("alloc")
    /\ PassedZero("vm_allocate")
    /\ kcalls[1].status = KERN_SUCCESS
    /\ kcalls[1].addr = NULL
    /\ result.ret = NULL

----------------------------------------------------------------------------
(* The rounded size against the request *)

\* x <= y and x < y + 4096 on sizes
SizeLeq(x, y) == x.page < y.page \/ (x.page = y.page /\ x.off <= y.off)
WithinPage(x, y) == x.page < y.page + 1 \/ (x.page = y.page + 1 /\ x.off < y.off)

\* alloc has passed to vm_allocate a length of at least the requested size and
\* of less than a page more, and a region it returns has that length
CoversRequest ==
    /\ process = "running"
    /\ Len(kcalls) = 1
    /\ kcalls[1].op = "vm_allocate"
    /\ SizeLeq(result.size, kcalls[1].size)
    /\ WithinPage(kcalls[1].size, result.size)
    /\ (kcalls[1].status = KERN_SUCCESS /\ result.size # USize(0, 0)) =>
          \E q \in mapped : q.base = result.ret /\ SizeLeq(result.size, q.size)

(* C40: for every requested size s of the 32-bit size type, the length alloc
   passes to vm_allocate is >= s and < s + 4096, so a successful alloc never
   returns a region shorter than requested. *)
C40_NeverShorter == Allocated => CoversRequest

(* C40, amended: for every requested size s < 2^32 - 4096, the length alloc
   passes to vm_allocate is >= s and < s + 4096, so a successful alloc of such
   a size never returns a region shorter than requested. *)
C40_NeverShorterBelowTop ==
    (Allocated /\ result.size.page < PageCount - 1) => CoversRequest

\* alloc(8191) has passed 8192 to the kernel and returned a region of 8192 bytes
C40_Witness ==
    /\ Allocated
    /\ result.size = USize(1, PAGE_SIZE - 1)
    /\ kcalls[1].size = USize(2, 0)
    /\ kcalls[1].status = KERN_SUCCESS
    /\ Region(result.ret, USize(2, 0)) \in mapped

====
